---- MODULE Spec2Model ----
(***************************************************************************)
(* Motivodo: a personal to-do application.                                 *)
(* The model covers server/routes.ts (the authentication middleware, the   *)
(* auth and task handlers) and server/storage.ts (DatabaseStorage), which  *)
(* are both held in src/ModernTodo/server/routes.ts, and the page of the   *)
(* browser: AuthContext, the Dashboard with its filters and task list, and *)
(* the mutations of the task components, over the query cache.             *)
(*                                                                         *)
(* A handler is cut into steps at the awaits that touch the database: two  *)
(* requests interleave exactly where two async handlers of one Node        *)
(* process can.  Time is counted in days.                                  *)
(***************************************************************************)
EXTENDS Integers, Sequences, FiniteSets, Bags, TLC

\* ------------------------------------------------------------- bounds
MaxClock == 8        \* the last day the clock reaches
MaxTasks == 2        \* task rows ever inserted
MaxPending == 2      \* handlers suspended at an await at the same time
MaxFlight == 2       \* requests of the page under way at the same time
MaxCards == 1        \* tasks created from the page

\* ---------------------------------------------------------- constants
TokenTTL == 7        \* expiresIn: "7d"
SaltRounds == 10     \* bcrypt.hash(password, 10)

\* ------------------------------------------------------------- values
Null == "null"                  \* SQL NULL / JSON null
Undefined == [undefined |-> TRUE]  \* an absent cookie, a missing row
TOKEN_COOKIE == "motivodo_token"
JWT_SECRET == "motivodo-secret-key"
OtherSecret == "some-other-key" \* what a forger signs with

Usernames == {"alice", "Alice"}
Passwords == {"pw1", "pw2"}
UserIds == 1 .. Cardinality(Usernames)
TaskIds == 1 .. MaxTasks

VARIABLES
    users,      \* table users: rows [id, username, password]
    tasks,      \* table tasks: rows [id, userId, title, ..., createdAt]
    taskSeq,    \* task rows inserted so far (ids are never reused)
    clock,      \* the current day
    jar,        \* the cookie each browser holds under TOKEN_COOKIE
    pending,    \* bag of handlers suspended between two storage calls
    resp,       \* the last request completed and its response
    cachedQuote, \* the quote of the day the process holds, or NoQuote
    filters,    \* the Dashboard's filter state
    client      \* the page: AuthContext's user, the query cache, the
                \* responses on their way to it

vars == <<users, tasks, taskSeq, clock, jar, pending, resp, cachedQuote,
          filters, client>>

\* a step of the server alone: the page stays as it is
PageIdle == UNCHANGED <<filters, client>>

Clients == {"c1", "c2"}

\* ------------------------------------------------------ functions as maps
Keys(f) == DOMAIN f
Has(f, k) == k \in DOMAIN f
\* { ...a, ...b }: the keys of both, b's value where both have the key
Spread(a, b) ==
    [k \in (DOMAIN a) \cup (DOMAIN b) |-> IF k \in DOMAIN b THEN b[k] ELSE a[k]]
\* for comparison: the whole object, nothing left out
WithoutNothing(f, k) == f
\* const { password: _, ...rest } = user
Without(f, k) == [x \in (DOMAIN f) \ {k} |-> f[x]]
Only(f, ks) == [x \in (DOMAIN f) \cap ks |-> f[x]]

\* ------------------------------------------------------------- bcrypt
\* bcrypt.hash(password, 10): a salted one-way digest; the salt is drawn by
\* the library and kept in the hash string.
Digest(salt, password) == <<"$2a$", SaltRounds, salt, password>>
bcryptHash(password, salt) ==
    [salt |-> salt, digest |-> Digest(salt, password)]
\* bcrypt.compare(password, hash): re-hash with the stored salt and compare
bcryptCompare(password, hash) == hash.digest = Digest(hash.salt, password)

\* ---------------------------------------------------------------- jwt
\* jwt.sign({ userId }, JWT_SECRET, { expiresIn: "7d" })
jwtSign(userId, secret, now) ==
    [userId |-> userId, iat |-> now, exp |-> now + TokenTTL, key |-> secret]
\* for comparison: a verification that looks at the signature only
jwtVerifyNoExpiry(token, secret, now) == token.key = secret
\* for comparison: a verification that still accepts the token at its expiry time
jwtVerifyLateExpiry(token, secret, now) == token.key = secret /\ now <= token.exp
\* jwt.verify(token, JWT_SECRET): throws on a bad signature and once
\* now >= exp
jwtVerify(token, secret, now) == token.key = secret /\ now < token.exp

\* authenticateToken: next() was called with req.userId set, or the
\* middleware answered 401 itself
authenticateToken(cookie, now) ==
    IF cookie = Undefined
    THEN [next |-> FALSE, message |-> "Authentication required"]
    ELSE IF jwtVerify(cookie, JWT_SECRET, now)
    THEN [next |-> TRUE, userId |-> cookie.userId]
    ELSE [next |-> FALSE, message |-> "Invalid or expired token"]

\* ------------------------------------------------------------ storage
getUser(id) ==
    IF \E u \in users : u.id = id
    THEN CHOOSE u \in users : u.id = id ELSE Undefined
Lower(str) == IF str = "Alice" THEN "alice" ELSE str
\* for comparison: a lookup that folds letter case
getUserByUsernameFolded(username) ==
    IF \E u \in users : Lower(u.username) = Lower(username)
    THEN CHOOSE u \in users : Lower(u.username) = Lower(username) ELSE Undefined
getUserByUsername(username) ==
    IF \E u \in users : u.username = username
    THEN CHOOSE u \in users : u.username = username ELSE Undefined
\* for comparison: a lookup without its WHERE clause
getTaskAnyId(id) ==
    IF tasks = {} THEN Undefined ELSE CHOOSE t \in tasks : TRUE
\* getTask: SELECT ... WHERE id = :id, result[0]
getTask(id) ==
    IF \E t \in tasks : t.id = id
    THEN CHOOSE t \in tasks : t.id = id ELSE Undefined

\* createUser: INSERT ... RETURNING.  users.username carries a unique
\* constraint, so the insert of a second row with the name throws.
UniqueViolation(username) == \E u \in users : u.username = username
createUser(insertUser) ==
    Spread([id |-> Cardinality(users) + 1], insertUser)

\* ------------------------------------------------------------ schemas
\* loginSchema = z.object({ username: z.string(), password: z.string() })
loginSchema(body) == {"username", "password"} \subseteq DOMAIN body
\* insertUserSchema: username and password, both strings, username non-empty
insertUserSchema(body) ==
    /\ {"username", "password"} \subseteq DOMAIN body
    /\ body.username # ""

\* ---------------------------------------------------------- responses
Json(op, req, status, body, cookie) ==
    [op |-> op, req |-> req, status |-> status, body |-> body, cookie |-> cookie]
Message(m) == [message |-> m]
\* a JSON array as the body
Array(rows) == [array |-> rows]
NoCookie == [set |-> FALSE]
SetCookie(token) == [set |-> TRUE, value |-> token]
ClearCookie == [set |-> TRUE, value |-> Undefined]
\* what the browser keeps after a response
Store(c, cookie) ==
    IF cookie.set THEN [jar EXCEPT ![c] = cookie.value] ELSE jar

Suspend(p) == pending (+) SetToBag({p})
Resume(p) == pending (-) SetToBag({p})
CanSuspend == BagCardinality(pending) < MaxPending

\* the cookies a client can send: its own, none, or one signed with
\* another key in the name of any user
Forged == {jwtSign(u, OtherSecret, clock) : u \in UserIds}
CookiesOf(c) == {jar[c], Undefined} \cup Forged

NoResponse == Json("none", Undefined, 0, Undefined, NoCookie)

\* ------------------------------------------- POST /api/auth/register
\* for comparison: a register that skips the lookup
UsernameExistsNever(username) == FALSE
\* "Check if user exists": existingUser is truthy
UsernameExists(username) == getUserByUsername(username) # Undefined

\* up to the await of storage.getUserByUsername and the test of its result
Register(c, body) ==
    LET req == [client |-> c, body |-> body] IN
    /\ UNCHANGED <<users, tasks, taskSeq, clock, cachedQuote>>
    /\ IF ~insertUserSchema(body)
       THEN /\ resp' = Json("register", req, 422, Message("Validation failed"), NoCookie)
            /\ UNCHANGED <<pending, jar>>
       ELSE IF UsernameExists(body.username)
       THEN /\ resp' = Json("register", req, 400, Message("Username already exists"), NoCookie)
            /\ UNCHANGED <<pending, jar>>
       ELSE /\ CanSuspend
            /\ pending' = Suspend([op |-> "register", req |-> req])
            /\ UNCHANGED <<resp, jar>>

\* from bcrypt.hash to the response: createUser, jwt.sign, res.cookie
RegisterInsert(p, salt) ==
    LET body == p.req.body
        hashedPassword == bcryptHash(body.password, salt)
        user == createUser([username |-> body.username, password |-> hashedPassword])
        token == jwtSign(user.id, JWT_SECRET, clock)
    IN
    /\ p.op = "register"
    /\ BagIn(p, pending)
    /\ pending' = Resume(p)
    /\ UNCHANGED <<tasks, taskSeq, clock, cachedQuote>>
    /\ IF UniqueViolation(body.username)
       THEN /\ resp' = Json("register", p.req, 500, Message("Registration failed"), NoCookie)
            /\ UNCHANGED <<users, jar>>
       ELSE /\ users' = users \cup {user}
            /\ resp' = Json("register", p.req, 200, Without(user, "password"), SetCookie(token))
            /\ jar' = Store(p.req.client, SetCookie(token))

\* ---------------------------------------------- POST /api/auth/login
Login(c, body) ==
    LET req == [client |-> c, body |-> body]
        user == getUserByUsername(body.username)
        token == jwtSign(user.id, JWT_SECRET, clock)
    IN
    /\ UNCHANGED <<users, tasks, taskSeq, clock, pending, cachedQuote>>
    /\ IF ~loginSchema(body)
       THEN /\ resp' = Json("login", req, 422, Message("Validation failed"), NoCookie)
            /\ UNCHANGED jar
       ELSE IF user = Undefined
       THEN /\ resp' = Json("login", req, 401, Message("Invalid credentials"), NoCookie)
            /\ UNCHANGED jar
       ELSE IF ~bcryptCompare(body.password, user.password)
       THEN /\ resp' = Json("login", req, 401, Message("Invalid credentials"), NoCookie)
            /\ UNCHANGED jar
       ELSE /\ resp' = Json("login", req, 200, Without(user, "password"), SetCookie(token))
            /\ jar' = Store(c, SetCookie(token))

\* ------------------------------------------------- GET /api/auth/me
Me(cookie) ==
    LET req == [cookie |-> cookie]
        auth == authenticateToken(cookie, clock)
        user == getUser(auth.userId)
    IN
    /\ UNCHANGED <<users, tasks, taskSeq, clock, pending, jar, cachedQuote>>
    /\ IF ~auth.next
       THEN resp' = Json("me", req, 401, Message(auth.message), NoCookie)
       ELSE IF user = Undefined
       THEN resp' = Json("me", req, 404, Message("User not found"), NoCookie)
       ELSE resp' = Json("me", req, 200, Without(user, "password"), NoCookie)

\* --------------------------------------------- POST /api/auth/logout
\* for comparison: a logout behind authenticateToken
LogoutAuthenticated(c) ==
    LET auth == authenticateToken(jar[c], clock) IN
    /\ UNCHANGED <<users, tasks, taskSeq, clock, pending, cachedQuote>>
    /\ IF ~auth.next
       THEN /\ resp' = Json("logout", [client |-> c], 401, Message(auth.message), NoCookie)
            /\ UNCHANGED jar
       ELSE /\ resp' = Json("logout", [client |-> c], 200,
                            Message("Logged out successfully"), ClearCookie)
            /\ jar' = Store(c, ClearCookie)
\* res.clearCookie(TOKEN_COOKIE); the route has no middleware and reads
\* nothing of the request
Logout(c) ==
    /\ UNCHANGED <<users, tasks, taskSeq, clock, pending, cachedQuote>>
    /\ resp' = Json("logout", [client |-> c], 200,
                    Message("Logged out successfully"), ClearCookie)
    /\ jar' = Store(c, ClearCookie)

\* the cookie of one client comes into the hands of another: the token is
\* a bearer token, whoever holds it can send it
Capture(from, to) ==
    /\ from # to
    /\ jar[from] # Undefined
    /\ jar[to] # jar[from]
    /\ jar' = [jar EXCEPT ![to] = jar[from]]
    /\ UNCHANGED <<users, tasks, taskSeq, clock, pending, resp, cachedQuote>>

\* ------------------------------------ GET /api/quotes/daily/:refresh?
\* the first three of the quotes the route draws from
quotes ==
    << [text |-> "The secret of getting ahead is getting started.", author |-> "Mark Twain"],
       [text |-> "It always seems impossible until it's done.", author |-> "Nelson Mandela"],
       [text |-> "Don't watch the clock; do what it does. Keep going.",
        author |-> "Sam Levenson"] >>
\* let cachedQuote = null
NoQuote == [null |-> TRUE]
\* the optional path segment: absent, or any text
Refreshes == {"", "1", "2"}
\* for comparison: a route that draws again whenever the segment is given
StaleQuoteOrRefresh(today, refresh) ==
    cachedQuote = NoQuote \/ cachedQuote.date # today \/ refresh # ""
\* for comparison: a route that keeps its first quote on every later day
StaleQuoteFirstOnly(today, refresh) ==
    cachedQuote = NoQuote
\* !cachedQuote || cachedQuote.date !== today (req.params.refresh is not read)
StaleQuote(today, refresh) ==
    cachedQuote = NoQuote \/ cachedQuote.date # today
\* today is new Date().toDateString(); Math.random() picks the quote
GetDailyQuote(refresh) ==
    LET today == clock
        req == [refresh |-> refresh, today |-> today]
    IN
    /\ UNCHANGED <<users, tasks, taskSeq, clock, jar, pending>>
    /\ \E i \in DOMAIN quotes :
          /\ cachedQuote' = IF StaleQuote(today, refresh)
                            THEN Spread(quotes[i], [date |-> today])
                            ELSE cachedQuote
          /\ resp' = Json("quote", req, 200,
                          [text |-> cachedQuote'.text, author |-> cachedQuote'.author],
                          NoCookie)

\* the passage of d days
Tick(d) ==
    /\ clock + d <= MaxClock
    /\ clock' = clock + d
    /\ UNCHANGED <<users, tasks, taskSeq, jar, pending, resp, cachedQuote>>

\* ------------------------------------------------------- task schema
TaskKeys == {"title", "description", "dueDate", "completed", "priority", "category"}
Priorities == {"low", "medium", "high"}
\* the column defaults of table tasks
TaskDefaults ==
    [description |-> Null, dueDate |-> Null, completed |-> FALSE,
     priority |-> "medium", category |-> Null]
\* the checks insertTaskSchema makes on the fields a body carries
TaskFieldsOk(body) ==
    /\ Has(body, "title") => body.title \notin {"", Null}
    /\ Has(body, "priority") => body.priority \in Priorities \cup {Null}
    /\ Has(body, "completed") => body.completed \in BOOLEAN
\* insertTaskSchema.safeParse(body): title is required; unknown keys are
\* stripped from the data
insertTaskSchema(body) ==
    [success |-> Has(body, "title") /\ TaskFieldsOk(body),
     data |-> Only(body, TaskKeys)]
\* for comparison: a PATCH that takes the body as it comes
insertTaskSchemaPartialUnchecked(body) ==
    [success |-> TRUE, data |-> Only(body, TaskKeys)]
\* insertTaskSchema.partial().safeParse(body): every key is optional
insertTaskSchemaPartial(body) ==
    [success |-> TaskFieldsOk(body), data |-> Only(body, TaskKeys)]

\* ------------------------------------------------------ task storage
\* the insert's timestamp (defaultNow()): the day and, within it, the
\* order of the inserts
Now == [day |-> clock, seq |-> taskSeq + 1]
\* for comparison: the ascending order
NewerAscending(a, b) == a.createdAt.seq < b.createdAt.seq
\* ORDER BY createdAt DESC: a comes before b
Newer(a, b) == a.createdAt.seq > b.createdAt.seq
\* for comparison: an insert whose column defaults win over the values given
createTaskDefaultsLast(taskData) ==
    Spread(Spread([id |-> taskSeq + 1, createdAt |-> Now], taskData), TaskDefaults)
\* createTask: INSERT ... RETURNING, the database fills id, createdAt and
\* the defaults of the columns not given
createTask(taskData) ==
    Spread(Spread([id |-> taskSeq + 1, createdAt |-> Now], TaskDefaults), taskData)
\* for comparison: an update that replaces the row by the values given
updateTaskReplace(id, updates) ==
    LET hit == {t \in tasks : t.id = id}
        Put(t) == Spread(Spread(Only(t, {"id", "userId", "createdAt"}), TaskDefaults),
                         Spread([title |-> t.title], updates))
    IN
    [tasks |-> (tasks \ hit) \cup {Put(t) : t \in hit},
     result |-> IF hit = {} THEN Undefined ELSE Put(CHOOSE t \in hit : TRUE)]
\* updateTask: UPDATE ... SET updates WHERE id = :id RETURNING
\* (partial merge of the row's columns); result[0] is the row written
updateTask(id, updates) ==
    LET hit == {t \in tasks : t.id = id} IN
    [tasks |-> (tasks \ hit) \cup {Spread(t, updates) : t \in hit},
     result |-> IF hit = {} THEN Undefined
                ELSE Spread(CHOOSE t \in hit : TRUE, updates)]
\* drizzle's set() throws "No values to set" on an update without a value
NoValuesToSet(updates) == DOMAIN updates = {}
\* deleteTask: DELETE ... WHERE id = :id RETURNING
deleteTask(id) ==
    [tasks |-> {t \in tasks : t.id # id},
     result |-> \E t \in tasks : t.id = id]
\* getTasksByUserId: WHERE userId = :userId ORDER BY createdAt DESC
RECURSIVE OrderDesc(_)
OrderDesc(rows) ==
    IF rows = {} THEN <<>>
    ELSE LET first == CHOOSE t \in rows : \A o \in rows \ {t} : Newer(t, o)
         IN <<first>> \o OrderDesc(rows \ {first})
getTasksByUserId(userId) == OrderDesc({t \in tasks : t.userId = userId})

\* ---------------------------------------------------- GET /api/tasks
GetTasks(cookie) ==
    LET req == [cookie |-> cookie]
        auth == authenticateToken(cookie, clock)
    IN
    /\ UNCHANGED <<users, tasks, taskSeq, clock, pending, jar, cachedQuote>>
    /\ IF ~auth.next
       THEN resp' = Json("list", req, 401, Message(auth.message), NoCookie)
       ELSE resp' = Json("list", req, 200, Array(getTasksByUserId(auth.userId)), NoCookie)

\* --------------------------------------------------- POST /api/tasks
\* for comparison: the spread in the other order, the raw body last
CreateTaskValuesBodyLast(body, userId) == Spread([userId |-> userId], body)
\* { ...validationResult.data, userId: req.userId }
CreateTaskValues(body, userId) ==
    Spread(insertTaskSchema(body).data, [userId |-> userId])

PostTask(cookie, body) ==
    LET req == [cookie |-> cookie, body |-> body]
        auth == authenticateToken(cookie, clock)
        validationResult == insertTaskSchema(body)
        task == createTask(CreateTaskValues(body, auth.userId))
    IN
    /\ UNCHANGED <<users, clock, pending, jar, cachedQuote>>
    /\ IF ~auth.next
       THEN /\ resp' = Json("create", req, 401, Message(auth.message), NoCookie)
            /\ UNCHANGED <<tasks, taskSeq>>
       ELSE IF ~validationResult.success
       THEN /\ resp' = Json("create", req, 422, Message("Validation failed"), NoCookie)
            /\ UNCHANGED <<tasks, taskSeq>>
       ELSE /\ taskSeq < MaxTasks
            /\ tasks' = tasks \cup {task}
            /\ taskSeq' = taskSeq + 1
            /\ resp' = Json("create", req, 200, task, NoCookie)

\* for comparison: the existence test alone
TaskAccessNoOwnerTest(task, userId) ==
    IF task = Undefined THEN 404 ELSE 200
\* for comparison: the ownership test before the existence test
TaskAccessOwnerFirst(task, userId) ==
    IF task = Undefined \/ task.userId # userId THEN 403 ELSE 200
\* "Verify task belongs to user": the status the two tests of PATCH and
\* DELETE end the request with, or 200 when both pass
TaskAccess(task, userId) ==
    IF task = Undefined THEN 404
    ELSE IF task.userId # userId THEN 403
    ELSE 200
AccessMessage(task, userId) ==
    Message(IF TaskAccess(task, userId) = 404 THEN "Task not found" ELSE "Forbidden")

\* ---------------------------------------------- PATCH /api/tasks/:id
\* for comparison: a PATCH that looks the task up before it validates
PatchTaskLookupFirst(cookie, id, body) ==
    LET req == [cookie |-> cookie, id |-> id, body |-> body]
        auth == authenticateToken(cookie, clock)
        validationResult == insertTaskSchemaPartial(body)
        task == getTask(id)
    IN
    /\ UNCHANGED <<users, tasks, taskSeq, clock, jar, cachedQuote>>
    /\ IF ~auth.next
       THEN /\ resp' = Json("update", req, 401, Message(auth.message), NoCookie)
            /\ UNCHANGED pending
       ELSE IF TaskAccess(task, auth.userId) # 200
       THEN /\ resp' = Json("update", req, TaskAccess(task, auth.userId),
                            AccessMessage(task, auth.userId), NoCookie)
            /\ UNCHANGED pending
       ELSE IF ~validationResult.success
       THEN /\ resp' = Json("update", req, 422, Message("Validation failed"), NoCookie)
            /\ UNCHANGED pending
       ELSE /\ CanSuspend
            /\ pending' = Suspend([op |-> "update", req |-> req, userId |-> auth.userId,
                                   data |-> validationResult.data])
            /\ UNCHANGED resp
\* up to the await of storage.getTask and the two tests of its result
PatchTask(cookie, id, body) ==
    LET req == [cookie |-> cookie, id |-> id, body |-> body]
        auth == authenticateToken(cookie, clock)
        validationResult == insertTaskSchemaPartial(body)
        task == getTask(id)
    IN
    /\ UNCHANGED <<users, tasks, taskSeq, clock, jar, cachedQuote>>
    /\ IF ~auth.next
       THEN /\ resp' = Json("update", req, 401, Message(auth.message), NoCookie)
            /\ UNCHANGED pending
       ELSE IF ~validationResult.success
       THEN /\ resp' = Json("update", req, 422, Message("Validation failed"), NoCookie)
            /\ UNCHANGED pending
       ELSE IF TaskAccess(task, auth.userId) # 200
       THEN /\ resp' = Json("update", req, TaskAccess(task, auth.userId),
                            AccessMessage(task, auth.userId), NoCookie)
            /\ UNCHANGED pending
       ELSE /\ CanSuspend
            /\ pending' = Suspend([op |-> "update", req |-> req, userId |-> auth.userId,
                                   data |-> validationResult.data])
            /\ UNCHANGED resp

\* storage.updateTask and the response
PatchUpdate(p) ==
    /\ p.op = "update"
    /\ BagIn(p, pending)
    /\ pending' = Resume(p)
    /\ UNCHANGED <<users, taskSeq, clock, jar, cachedQuote>>
    /\ IF NoValuesToSet(p.data)
       THEN /\ resp' = Json("update", p.req, 500, Message("Failed to update task"), NoCookie)
            /\ UNCHANGED tasks
       ELSE /\ tasks' = updateTask(p.req.id, p.data).tasks
            /\ resp' = Json("update", p.req, 200, updateTask(p.req.id, p.data).result,
                            NoCookie)

\* --------------------------------------------- DELETE /api/tasks/:id
DeleteTask(cookie, id) ==
    LET req == [cookie |-> cookie, id |-> id]
        auth == authenticateToken(cookie, clock)
        task == getTask(id)
    IN
    /\ UNCHANGED <<users, tasks, taskSeq, clock, jar, cachedQuote>>
    /\ IF ~auth.next
       THEN /\ resp' = Json("delete", req, 401, Message(auth.message), NoCookie)
            /\ UNCHANGED pending
       ELSE IF TaskAccess(task, auth.userId) # 200
       THEN /\ resp' = Json("delete", req, TaskAccess(task, auth.userId),
                            AccessMessage(task, auth.userId), NoCookie)
            /\ UNCHANGED pending
       ELSE /\ CanSuspend
            /\ pending' = Suspend([op |-> "delete", req |-> req, userId |-> auth.userId])
            /\ UNCHANGED resp

\* storage.deleteTask and the response
DeleteRun(p) ==
    /\ p.op = "delete"
    /\ BagIn(p, pending)
    /\ pending' = Resume(p)
    /\ UNCHANGED <<users, taskSeq, clock, jar, cachedQuote>>
    /\ tasks' = deleteTask(p.req.id).tasks
    /\ resp' = Json("delete", p.req, 200, Message("Task deleted successfully"), NoCookie)

\* ------------------------------------------------ the routes' catch
\* the message each route's catch answers with
catchMessage(op) ==
    CASE op = "register" -> "Registration failed"
      [] op = "login" -> "Login failed"
      [] op = "me" -> "Failed to get user"
      [] op = "list" -> "Failed to get tasks"
      [] op = "create" -> "Failed to create task"
      [] op = "update" -> "Failed to update task"
      [] op = "delete" -> "Failed to delete task"
\* the first storage call of a handler rejects: the await throws into the
\* catch of the route. The call is reached past the middleware and the
\* validation of the body only.
StorageRejects(op, req) ==
    LET reached ==
          CASE op = "register" -> insertUserSchema(req.body)
            [] op = "login" -> loginSchema(req.body)
            [] op = "create" -> /\ authenticateToken(req.cookie, clock).next
                                /\ insertTaskSchema(req.body).success
            [] op = "update" -> /\ authenticateToken(req.cookie, clock).next
                                /\ insertTaskSchemaPartial(req.body).success
            [] OTHER -> authenticateToken(req.cookie, clock).next
    IN
    /\ reached
    /\ resp' = Json(op, req, 500, Message(catchMessage(op)), NoCookie)
    /\ UNCHANGED <<users, tasks, taskSeq, clock, jar, pending, cachedQuote>>
\* for comparison: a handler whose rejected await ends it without a word
AwaitRejectsUnanswered(p) ==
    /\ BagIn(p, pending)
    /\ pending' = Resume(p)
    /\ UNCHANGED <<users, tasks, taskSeq, clock, jar, resp, cachedQuote>>
\* the call a handler was suspended at rejects (createUser, updateTask,
\* deleteTask): the catch of its route answers
AwaitRejects(p) ==
    /\ BagIn(p, pending)
    /\ pending' = Resume(p)
    /\ resp' = Json(p.op, p.req, 500, Message(catchMessage(p.op)), NoCookie)
    /\ UNCHANGED <<users, tasks, taskSeq, clock, jar, cachedQuote>>

\* ------------------------------------------------------------ inputs
Salts == {"salt1", "salt2"}
UserBodies ==
    [username : Usernames, password : Passwords] \cup {[username |-> "alice"]}
PostBodies ==
    { [title |-> "Pay rent", description |-> "monthly", dueDate |-> "2026-12-01",
       priority |-> "high", category |-> "home", userId |-> 2, id |-> 1],
      [description |-> "no title"] }
PatchBodies ==
    { [completed |-> TRUE],
      [title |-> "Call mom", priority |-> "low", userId |-> 2, id |-> 2,
       createdAt |-> [day |-> 0, seq |-> 0]],
      [priority |-> "urgent"] }

Pending == BagToSet(pending)

\* -------------------------------------------------- the page's state
\* useState<User | null>(null)
NoUser == [null |-> TRUE]
\* a query of the cache before its first response
NoData == [status |-> "pending", data |-> <<>>, invalid |-> FALSE]
\* the query has data (data !== undefined): it was fetched, and a later
\* failure keeps what it holds
HasData(query) == query.status \in {"success", "stale"}
\* a query holding the data of its last response
Fetched(data) == [status |-> "success", data |-> data, invalid |-> FALSE]
\* the page as it loads: no user, nothing cached, nothing under way
NoPage ==
    [user |-> NoUser,
     me |-> [NoData EXCEPT !.data = NoUser],
     tasks |-> NoData,
     flight |-> {}]
\* the Dashboard's first filter state
NoFilters == [search |-> "", priority |-> {}, category |-> {}, completed |-> "all"]

\* ------------------------------------------------- TaskList's filters
\* the characters of the texts the page handles
Chars(str) ==
    CASE str = "" -> <<>>
      [] str = "Tea" -> <<"T", "e", "a">>
      [] str = "tax" -> <<"t", "a", "x">>
      [] str = "Eat" -> <<"E", "a", "t">>
      [] str = "TE" -> <<"T", "E">>
      [] str = "at" -> <<"a", "t">>
\* String.prototype.toLowerCase, character by character
LowerChar(ch) ==
    CASE ch = "T" -> "t" [] ch = "E" -> "e" [] ch = "A" -> "a" [] OTHER -> ch
\* for comparison: texts compared as they are written
toLowerCaseNot(chars) == chars
toLowerCase(chars) ==
    IF chars = <<>> THEN <<>> ELSE [i \in 1 .. Len(chars) |-> LowerChar(chars[i])]
\* String.prototype.includes
includes(text, part) ==
    \E i \in 0 .. (Len(text) - Len(part)) : SubSeq(text, i + 1, i + Len(part)) = part
\* a text or null taken as a condition
Truthy(v) == v \notin {Null, ""}
\* for comparison: a test that applies the priority and category sets even
\* when they are empty
PassesUnguarded(task, f) ==
    /\ Truthy(task.priority) /\ task.priority \in f.priority
    /\ Truthy(task.category) /\ task.category \in f.category
\* the test filter() makes on one task, return by return
Passes(task, f) ==
    LET searchLower == toLowerCase(Chars(f.search))
        matchesSearch ==
            \/ includes(toLowerCase(Chars(task.title)), searchLower)
            \/ /\ Truthy(task.description)
               /\ includes(toLowerCase(Chars(task.description)), searchLower)
    IN
    IF Truthy(f.search) /\ ~matchesSearch THEN FALSE
    ELSE IF /\ f.priority # {}
            /\ (~Truthy(task.priority) \/ task.priority \notin f.priority)
    THEN FALSE
    ELSE IF /\ f.category # {}
            /\ (~Truthy(task.category) \/ task.category \notin f.category)
    THEN FALSE
    ELSE IF f.completed = "active" /\ task.completed THEN FALSE
    ELSE IF f.completed = "completed" /\ ~task.completed THEN FALSE
    ELSE TRUE
applyFilters(ts, f) == SelectSeq(ts, LAMBDA task : Passes(task, f))
\* what TaskList renders from the cached list and the filters
filteredTasks ==
    IF HasData(client.tasks) THEN applyFilters(client.tasks.data, filters)
    ELSE <<>>
completedTasks == SelectSeq(filteredTasks, LAMBDA task : task.completed)
\* Math.round of a quotient of naturals: halves go up
Round(num, den) == (2 * num + den) \div (2 * den)
completionPercentage ==
    IF HasData(client.tasks) /\ Len(client.tasks.data) > 0
    THEN Round(Len(completedTasks) * 100, Len(client.tasks.data))
    ELSE 0
\* the Dashboard's categories: those of the cached tasks that are not empty
availableCategories ==
    IF ~HasData(client.tasks) THEN {}
    ELSE {client.tasks.data[i].category : i \in 1 .. Len(client.tasks.data)}
            \ {Null, ""}

\* ------------------------------------------------------- TaskFilters
Searches == {"", "TE", "at"}
Modes == {"all", "active", "completed"}
handleSearchChange(value) ==
    /\ filters' = [filters EXCEPT !.search = value]
    /\ UNCHANGED <<users, tasks, taskSeq, clock, jar, pending, resp, cachedQuote, client>>
togglePriority(priority) ==
    /\ filters' = [filters EXCEPT !.priority =
                      IF priority \in @ THEN @ \ {priority} ELSE @ \cup {priority}]
    /\ UNCHANGED <<users, tasks, taskSeq, clock, jar, pending, resp, cachedQuote, client>>
\* a category is toggled by its checkbox (one per available category) or by
\* the badge of a selected one
toggleCategory(category) ==
    /\ category \in availableCategories \cup filters.category
    /\ filters' = [filters EXCEPT !.category =
                      IF category \in @ THEN @ \ {category} ELSE @ \cup {category}]
    /\ UNCHANGED <<users, tasks, taskSeq, clock, jar, pending, resp, cachedQuote, client>>
onValueChange(value) ==
    /\ filters' = [filters EXCEPT !.completed = value]
    /\ UNCHANGED <<users, tasks, taskSeq, clock, jar, pending, resp, cachedQuote, client>>
clearFilters ==
    /\ filters' = NoFilters
    /\ UNCHANGED <<users, tasks, taskSeq, clock, jar, pending, resp, cachedQuote, client>>

\* ------------------------------------------- the page and the server
\* the browser the page runs in
App == "c1"
\* the step ends a handler (it does not stop at an await)
Answered == BagCardinality(pending') <= BagCardinality(pending)
\* a request of the page: the handler runs, its response sets out for the page
Sent(Handler) ==
    /\ Handler
    /\ client' = [client EXCEPT !.flight = IF Answered THEN @ \cup {resp'} ELSE @]
    /\ UNCHANGED filters
InFlight(ops) == {r \in client.flight : r.op \in ops}
\* requests under way, at the server or on the way back
CanSend == Cardinality(client.flight) + BagCardinality(pending) < MaxFlight
\* the queries are fetched when mounted without data and when invalidated;
\* retry is off
Due(query) == query.status = "pending" \/ query.invalid
\* the Dashboard, and with it TaskList, is on screen while there is a user
Mounted == client.user # NoUser
Failed(query) ==
    [query EXCEPT !.status = IF HasData(query) THEN "stale" ELSE "error",
                  !.invalid = FALSE]
\* invalidateQueries marks the query and fetches it again: a fetch under way
\* is dropped (cancelRefetch) when the query has data, and is the one that
\* answers when it has none
Superseded(query, ops) == IF HasData(query) THEN InFlight(ops) ELSE {}
Refetching(query, ops) == ~HasData(query) /\ InFlight(ops) # {}
Invalidated(query, ops) ==
    IF Refetching(query, ops) THEN query ELSE [query EXCEPT !.invalid = TRUE]

\* useQuery({ queryKey: ["/api/auth/me"], retry: false })
FetchMe ==
    /\ Due(client.me)
    /\ InFlight({"me"}) = {}
    /\ CanSend
    /\ Sent(Me(jar[App]))
\* the response of /api/auth/me; useEffect(() => { if (data) setUser(data) },
\* [data]) runs when the data is new
MeSettled(r) ==
    /\ r \in InFlight({"me"})
    /\ client' =
          IF r.status = 200
          THEN [client EXCEPT !.flight = @ \ {r},
                              !.me = Fetched(r.body),
                              !.user = IF r.body # client.me.data THEN r.body ELSE @]
          ELSE [client EXCEPT !.flight = @ \ {r}, !.me = Failed(@)]
    /\ UNCHANGED <<users, tasks, taskSeq, clock, jar, pending, resp, cachedQuote, filters>>
\* useQuery({ queryKey: ["/api/tasks"] })
FetchTasks ==
    /\ Mounted
    /\ Due(client.tasks)
    /\ InFlight({"list"}) = {}
    /\ CanSend
    /\ Sent(GetTasks(jar[App]))
TasksSettled(r) ==
    /\ r \in InFlight({"list"})
    /\ client' =
          IF r.status = 200
          THEN [client EXCEPT !.flight = @ \ {r}, !.tasks = Fetched(r.body.array)]
          ELSE [client EXCEPT !.flight = @ \ {r}, !.tasks = Failed(@)]
    /\ UNCHANGED <<users, tasks, taskSeq, clock, jar, pending, resp, cachedQuote, filters>>

\* the requests under way: at an await of their handler, or answered and
\* the response not yet with the page (a mutation's button is disabled
\* while its request is among them)
UnderWay == client.flight \cup Pending
AuthRequest(r) == r.op \in {"login", "register"}
\* the Auth page is on screen while there is no user; its button is
\* disabled while the form is submitting
loginMutation(body) ==
    /\ ~Mounted
    /\ ~\E r \in UnderWay : AuthRequest(r)
    /\ CanSend
    /\ Sent(Login(App, body))
registerMutation(body) ==
    /\ ~Mounted
    /\ ~\E r \in UnderWay : AuthRequest(r)
    /\ CanSend
    /\ Sent(Register(App, body))
\* onSuccess of loginMutation and registerMutation; a failure is a toast
AuthSettled(r) ==
    /\ r \in InFlight({"login", "register"})
    /\ client' =
          IF r.status = 200
          THEN [client EXCEPT !.flight = (@ \ {r}) \ Superseded(client.me, {"me"}),
                              !.user = r.body,
                              !.me = Invalidated(@, {"me"})]
          ELSE [client EXCEPT !.flight = @ \ {r}]
    /\ UNCHANGED <<users, tasks, taskSeq, clock, jar, pending, resp, cachedQuote, filters>>
\* logout: await apiRequest("POST", "/api/auth/logout", {})
logout ==
    /\ Mounted
    /\ CanSend
    /\ Sent(Logout(App))
\* the request does not reach the server: fetch rejects
NetworkError(op) == Json(op, [client |-> App], 0, Message("Failed to fetch"), NoCookie)
logoutFails ==
    /\ Mounted
    /\ CanSend
    /\ client' = [client EXCEPT !.flight = @ \cup {NetworkError("logout")}]
    /\ UNCHANGED <<users, tasks, taskSeq, clock, jar, pending, resp, cachedQuote, filters>>
\* for comparison: a cache cleared without dropping the fetches under way
clearKeepsFetches(r) == client.flight \ {r}
\* queryClient.clear(): the queries are removed, their fetches dropped
clear(r) == (client.flight \ {r}) \ InFlight({"me", "list"})
\* past the await: setUser(null); queryClient.clear().  A rejected request
\* throws at the await
LogoutSettled(r) ==
    /\ r \in InFlight({"logout"})
    /\ client' =
          IF r.status = 200
          THEN [NoPage EXCEPT !.flight = clear(r)]
          ELSE [client EXCEPT !.flight = @ \ {r}]
    /\ UNCHANGED <<users, tasks, taskSeq, clock, jar, pending, resp, cachedQuote, filters>>

\* the values the task forms submit
FormBodies ==
    { [title |-> "Tea", description |-> "", completed |-> FALSE,
       priority |-> "medium", category |-> "home"] }
\* EditTaskModal: the task's values with the category cleared
EditBody(task) ==
    [title |-> task.title,
     description |-> IF Truthy(task.description) THEN task.description ELSE "",
     completed |-> task.completed,
     priority |-> IF Truthy(task.priority) THEN task.priority ELSE "medium",
     category |-> ""]
\* the cards of the list on screen
Cards ==
    IF Mounted /\ HasData(client.tasks)
    THEN {client.tasks.data[i] : i \in 1 .. Len(client.tasks.data)} ELSE {}
IsToggle(r) == DOMAIN r.req.body = {"completed"}
createMutation(body) ==
    /\ Mounted
    /\ ~\E r \in UnderWay : r.op = "create"
    /\ CanSend
    /\ taskSeq < MaxCards
    /\ Sent(PostTask(jar[App], body))
\* the pencil is disabled on a completed task
updateMutation(task) ==
    /\ task \in Cards
    /\ ~task.completed
    /\ ~\E r \in UnderWay : r.op = "update" /\ r.req.id = task.id /\ ~IsToggle(r)
    /\ CanSend
    /\ Sent(PatchTask(jar[App], task.id, EditBody(task)))
\* for comparison: a toggle that flips the cached task as it is issued
toggleMutationOptimistic(task) ==
    /\ task \in Cards
    /\ ~\E r \in UnderWay : r.op = "update" /\ r.req.id = task.id /\ IsToggle(r)
    /\ CanSend
    /\ PatchTask(jar[App], task.id, [completed |-> ~task.completed])
    /\ client' = [client EXCEPT
          !.flight = IF Answered THEN @ \cup {resp'} ELSE @,
          !.tasks = [@ EXCEPT !.data = [i \in 1 .. Len(@) |->
                        IF @[i] = task THEN [task EXCEPT !.completed = ~@] ELSE @[i]]]]
    /\ UNCHANGED filters
toggleMutation(task) ==
    /\ task \in Cards
    /\ ~\E r \in UnderWay : r.op = "update" /\ r.req.id = task.id /\ IsToggle(r)
    /\ CanSend
    /\ Sent(PatchTask(jar[App], task.id, [completed |-> ~task.completed]))
deleteMutation(task) ==
    /\ task \in Cards
    /\ ~\E r \in UnderWay : r.op = "delete" /\ r.req.id = task.id
    /\ CanSend
    /\ Sent(DeleteTask(jar[App], task.id))
\* onSuccess of the four task mutations: invalidateQueries(["/api/tasks"]);
\* onError is a toast, or nothing
Settled(r) ==
    IF r.status = 200
    THEN [client EXCEPT !.flight = (@ \ {r}) \ Superseded(client.tasks, {"list"}),
                        !.tasks = Invalidated(@, {"list"})]
    ELSE [client EXCEPT !.flight = @ \ {r}]
MutationSettled(r) ==
    /\ r \in InFlight({"create", "update", "delete"})
    /\ client' = Settled(r)
    /\ UNCHANGED <<users, tasks, taskSeq, clock, jar, pending, resp, cachedQuote, filters>>

\* ----------------------------------------------------- specifications
\* The task API.  Two users have registered and each browser holds the
\* session of one; a week has passed since their first login, whose tokens
\* have expired.
Registered(id, username, password, salt) ==
    [id |-> id, username |-> username, password |-> bcryptHash(password, salt)]
Stale == jwtSign(2, JWT_SECRET, 0)
Cookies ==
    {jar[c] : c \in Clients} \cup {Undefined, Stale, jwtSign(1, OtherSecret, clock)}

TwoUsers ==
    {Registered(1, "alice", "pw1", "salt1"), Registered(2, "Alice", "pw2", "salt2")}

Init ==
    /\ users = TwoUsers
    /\ tasks = {}
    /\ taskSeq = 0
    /\ clock = TokenTTL
    /\ jar = [c \in Clients |->
                jwtSign(IF c = "c1" THEN 1 ELSE 2, JWT_SECRET, TokenTTL)]
    /\ pending = EmptyBag
    /\ resp = NoResponse
    /\ cachedQuote = NoQuote
    /\ filters = NoFilters
    /\ client = NoPage

Next ==
    \/ \E cookie \in Cookies : Me(cookie) /\ PageIdle
    \/ \E cookie \in Cookies : GetTasks(cookie) /\ PageIdle
    \/ \E cookie \in Cookies, body \in PostBodies : PostTask(cookie, body) /\ PageIdle
    \/ \E cookie \in Cookies, id \in TaskIds, body \in PatchBodies :
          PatchTask(cookie, id, body) /\ PageIdle
    \/ \E p \in Pending : PatchUpdate(p) /\ PageIdle
    \/ \E cookie \in Cookies, id \in TaskIds : DeleteTask(cookie, id) /\ PageIdle
    \/ \E p \in Pending : DeleteRun(p) /\ PageIdle

Spec == Init /\ [][Next]_vars

\* The auth API from the empty database, one browser, within one day.
InitAuth ==
    /\ users = {}
    /\ tasks = {}
    /\ taskSeq = 0
    /\ clock = 0
    /\ jar = [c \in Clients |-> Undefined]
    /\ pending = EmptyBag
    /\ resp = NoResponse
    /\ cachedQuote = NoQuote
    /\ filters = NoFilters
    /\ client = NoPage

NextAuth ==
    \/ \E body \in UserBodies : Register("c1", body) /\ PageIdle
    \/ \E p \in Pending, salt \in Salts : RegisterInsert(p, salt) /\ PageIdle
    \/ \E body \in UserBodies : Login("c1", body) /\ PageIdle
    \/ Logout("c1") /\ PageIdle
    \/ \E cookie \in CookiesOf("c1") : Me(cookie) /\ PageIdle
    \/ \E cookie \in CookiesOf("c1") : GetTasks(cookie) /\ PageIdle
    \/ \E cookie \in CookiesOf("c1") : PostTask(cookie, [title |-> "Buy milk"]) /\ PageIdle

SpecAuth == InitAuth /\ [][NextAuth]_vars

\* The life of a session token, day by day: alice has registered, Alice
\* registers on some day; both log in and use their cookie.
InitToken ==
    /\ users = {Registered(1, "alice", "pw1", "salt1")}
    /\ tasks = {}
    /\ taskSeq = 0
    /\ clock = 0
    /\ jar = [c \in Clients |-> Undefined]
    /\ pending = EmptyBag
    /\ resp = NoResponse
    /\ cachedQuote = NoQuote
    /\ filters = NoFilters
    /\ client = NoPage

NextToken ==
    \/ Register("c1", [username |-> "Alice", password |-> "pw2"]) /\ PageIdle
    \/ \E p \in Pending : RegisterInsert(p, "salt2") /\ PageIdle
    \/ \E u \in Usernames, pw \in Passwords :
          Login("c1", [username |-> u, password |-> pw]) /\ PageIdle
    \/ \E cookie \in CookiesOf("c1") : Me(cookie) /\ PageIdle
    \/ \E cookie \in CookiesOf("c1") : GetTasks(cookie) /\ PageIdle
    \/ Tick(1) /\ PageIdle

SpecToken == InitToken /\ [][NextToken]_vars

\* Logout: alice logs in on client c1 and logs out; client c2 holds a copy
\* of a cookie of c1 and goes on sending it, four days at a time.
NextLogout ==
    \/ \E pw \in Passwords : Login("c1", [username |-> "alice", password |-> pw]) /\ PageIdle
    \/ Logout("c1") /\ PageIdle
    \/ Capture("c1", "c2") /\ PageIdle
    \/ \E c \in Clients : Me(jar[c]) /\ PageIdle
    \/ \E c \in Clients : GetTasks(jar[c]) /\ PageIdle
    \/ \E c \in Clients : PostTask(jar[c], [title |-> "Buy milk"]) /\ PageIdle
    \/ Tick(4) /\ PageIdle

SpecLogout == InitToken /\ [][NextLogout]_vars

\* The quote of the day, asked for with and without the refresh segment,
\* day after day, by a process that starts without a quote.
InitQuote ==
    /\ users = {}
    /\ tasks = {}
    /\ taskSeq = 0
    /\ clock = 0
    /\ jar = [c \in Clients |-> Undefined]
    /\ pending = EmptyBag
    /\ resp = NoResponse
    /\ cachedQuote = NoQuote
    /\ filters = NoFilters
    /\ client = NoPage

NextQuote ==
    \/ \E refresh \in Refreshes : GetDailyQuote(refresh) /\ PageIdle
    \/ Tick(1) /\ PageIdle

SpecQuote == InitQuote /\ [][NextQuote]_vars

\* Validation: bodies that pass and bodies that fail the schemas, sent
\* straight to the API by alice (client c1), by a visitor who registers
\* and logs in (client c2), and without a session.
InvalidUserBodies ==
    { [username |-> "", password |-> "pw1"], [username |-> "alice"] }
ValidUserBodies ==
    { [username |-> "Alice", password |-> "pw2"] }
DirectPostBodies ==
    { [title |-> "Buy milk", priority |-> "low"],
      [title |-> ""],
      [title |-> "Buy milk", priority |-> "urgent"],
      [priority |-> "high"] }
DirectPatchBodies ==
    { [title |-> "Buy bread", priority |-> "high"],
      [title |-> ""],
      [title |-> Null],
      [priority |-> "urgent"] }

InitValid ==
    /\ users = {Registered(1, "alice", "pw1", "salt1")}
    /\ tasks = {}
    /\ taskSeq = 0
    /\ clock = 0
    /\ jar = [c \in Clients |->
                IF c = "c1" THEN jwtSign(1, JWT_SECRET, 0) ELSE Undefined]
    /\ pending = EmptyBag
    /\ resp = NoResponse
    /\ cachedQuote = NoQuote
    /\ filters = NoFilters
    /\ client = NoPage

NextValid ==
    \/ \E body \in InvalidUserBodies \cup ValidUserBodies : Register("c2", body) /\ PageIdle
    \/ \E p \in Pending : RegisterInsert(p, "salt2") /\ PageIdle
    \/ \E body \in InvalidUserBodies \cup ValidUserBodies : Login("c2", body) /\ PageIdle
    \/ \E c \in Clients, body \in DirectPostBodies : PostTask(jar[c], body) /\ PageIdle
    \/ \E c \in Clients, id \in TaskIds, body \in DirectPatchBodies :
          PatchTask(jar[c], id, body) /\ PageIdle
    \/ \E p \in Pending : PatchUpdate(p) /\ PageIdle

SpecValid == InitValid /\ [][NextValid]_vars

\* The filters of the Dashboard over a task list the page has fetched:
\* alice is logged in, her tasks are in the table and in the cache.
TaskTexts ==
    { [title |-> "Tea", description |-> Null],
      [title |-> "tax", description |-> ""],
      [title |-> "tax", description |-> "Eat"] }
TaskContents ==
    { Spread(text, [priority |-> p, category |-> c, completed |-> d]) :
        text \in TaskTexts, p \in {Null, "high"}, c \in {Null, "home"},
        d \in BOOLEAN }
\* the row a form's content makes as alice's id-th task
Row(id, content) ==
    Spread([id |-> id, userId |-> 1, dueDate |-> Null,
            createdAt |-> [day |-> 0, seq |-> id]], content)
alice == [id |-> 1, username |-> "alice"]

InitFilter ==
    /\ users = {Registered(1, "alice", "pw1", "salt1")}
    /\ \E n \in 0 .. MaxTasks : \E content \in [1 .. n -> TaskContents] :
          tasks = {Row(id, content[id]) : id \in 1 .. n}
    /\ taskSeq = Cardinality(tasks)
    /\ clock = 0
    /\ jar = [c \in Clients |->
                IF c = "c1" THEN jwtSign(1, JWT_SECRET, 0) ELSE Undefined]
    /\ pending = EmptyBag
    /\ resp = NoResponse
    /\ cachedQuote = NoQuote
    /\ filters = NoFilters
    /\ client = [NoPage EXCEPT !.user = alice, !.me = Fetched(alice),
                               !.tasks = Fetched(getTasksByUserId(1))]

NextFilter ==
    \/ \E value \in Searches : handleSearchChange(value)
    \/ \E priority \in {"high", "low"} : togglePriority(priority)
    \/ \E category \in {"home"} : toggleCategory(category)
    \/ \E value \in Modes : onValueChange(value)
    \/ clearFilters

SpecFilter == InitFilter /\ [][NextFilter]_vars

\* The page against the server: the page loads without a session; alice
\* has an account, Alice registers; the user logs in, works on the list and
\* logs out.
InitClient ==
    /\ users = {Registered(1, "alice", "pw1", "salt1")}
    /\ tasks = {}
    /\ taskSeq = 0
    /\ clock = 0
    /\ jar = [c \in Clients |-> Undefined]
    /\ pending = EmptyBag
    /\ resp = NoResponse
    /\ cachedQuote = NoQuote
    /\ filters = NoFilters
    /\ client = NoPage

NextClient ==
    \/ FetchMe
    \/ \E r \in client.flight : MeSettled(r)
    \/ FetchTasks
    \/ \E r \in client.flight : TasksSettled(r)
    \/ \E pw \in Passwords : loginMutation([username |-> "alice", password |-> pw])
    \/ registerMutation([username |-> "Alice", password |-> "pw2"])
    \/ \E p \in Pending : Sent(RegisterInsert(p, "salt2"))
    \/ \E r \in client.flight : AuthSettled(r)
    \/ logout
    \/ logoutFails
    \/ \E r \in client.flight : LogoutSettled(r)
    \/ \E body \in FormBodies : createMutation(body)
    \/ \E task \in Cards : updateMutation(task)
    \/ \E task \in Cards : toggleMutation(task)
    \/ \E p \in Pending : Sent(PatchUpdate(p))
    \/ \E task \in Cards : deleteMutation(task)
    \/ \E p \in Pending : Sent(DeleteRun(p))
    \/ \E r \in client.flight : MutationSettled(r)

SpecClient == InitClient /\ [][NextClient]_vars

\* The category filter while the list changes: alice is logged in with an
\* empty list; she creates, edits and deletes a task and ticks categories.
InitCategory ==
    /\ users = {Registered(1, "alice", "pw1", "salt1")}
    /\ tasks = {}
    /\ taskSeq = 0
    /\ clock = 0
    /\ jar = [c \in Clients |->
                IF c = App THEN jwtSign(1, JWT_SECRET, 0) ELSE Undefined]
    /\ pending = EmptyBag
    /\ resp = NoResponse
    /\ cachedQuote = NoQuote
    /\ filters = NoFilters
    /\ client = [NoPage EXCEPT !.user = alice, !.me = Fetched(alice),
                               !.tasks = Fetched(<<>>)]

NextCategory ==
    \/ FetchTasks
    \/ \E r \in client.flight : TasksSettled(r)
    \/ \E body \in FormBodies : createMutation(body)
    \/ \E task \in Cards : updateMutation(task)
    \/ \E p \in Pending : Sent(PatchUpdate(p))
    \/ \E task \in Cards : deleteMutation(task)
    \/ \E p \in Pending : Sent(DeleteRun(p))
    \/ \E r \in client.flight : MutationSettled(r)
    \/ toggleCategory("home")
    \/ \E value \in Modes : onValueChange(value)

SpecCategory == InitCategory /\ [][NextCategory]_vars


\* Two PATCHes of alice's on her first task, from the page and from
\* anywhere else with her cookie, interleaved at the handler's awaits.
Prior ==
    Row(1, [title |-> "Tea", description |-> "Eat", completed |-> FALSE,
            priority |-> "high", category |-> "home"])
Bystander ==
    Row(2, [title |-> "tax", description |-> Null, completed |-> TRUE,
            priority |-> "low", category |-> Null])
RaceBodies ==
    { [completed |-> TRUE],
      [title |-> "tax", priority |-> "low"],
      [title |-> "Eat", category |-> Null, completed |-> FALSE],
      [priority |-> "medium", description |-> "", userId |-> 2],
      [description |-> "at", title |-> "TE", id |-> 2,
       createdAt |-> [day |-> 0, seq |-> 0]],
      [dueDate |-> "2026-12-01", category |-> "work"],
      [completed |-> TRUE, priority |-> Null, dueDate |-> Null],
      [title |-> "Tea", description |-> "Eat", category |-> ""] }
\* a PATCH unlike the one already under way or answered
RacingPatch(body) ==
    /\ Cardinality(client.flight) + BagCardinality(pending) < 2
    /\ \A p \in Pending : p.req.body # body
    /\ \A r \in client.flight : r.req.body # body
    /\ Sent(PatchTask(jar[App], 1, body))

InitRace ==
    /\ users = {Registered(1, "alice", "pw1", "salt1")}
    /\ tasks = {Prior, Bystander}
    /\ taskSeq = 2
    /\ clock = 0
    /\ jar = [c \in Clients |->
                IF c = App THEN jwtSign(1, JWT_SECRET, 0) ELSE Undefined]
    /\ pending = EmptyBag
    /\ resp = NoResponse
    /\ cachedQuote = NoQuote
    /\ filters = NoFilters
    /\ client = [NoPage EXCEPT !.user = alice, !.me = Fetched(alice),
                               !.tasks = Fetched(<<Bystander, Prior>>)]

NextRace ==
    \/ \E body \in RaceBodies : RacingPatch(body)
    \/ \E p \in Pending : Sent(PatchUpdate(p))

SpecRace == InitRace /\ [][NextRace]_vars

\* Every route of the auth and task API from the empty database, one
\* browser, with storage calls that may reject.
FaultBodies == {[username |-> "alice", password |-> "pw1"], [username |-> "alice"]}
NextFault ==
    \/ \E body \in FaultBodies : Register(App, body) /\ PageIdle
    \/ \E p \in Pending : RegisterInsert(p, "salt1") /\ PageIdle
    \/ \E body \in FaultBodies : Login(App, body) /\ PageIdle
    \/ Logout(App) /\ PageIdle
    \/ \E cookie \in {jar[App], Undefined} : Me(cookie) /\ PageIdle
    \/ \E cookie \in {jar[App], Undefined} : GetTasks(cookie) /\ PageIdle
    \/ \E cookie \in {jar[App], Undefined}, body \in PostBodies :
          PostTask(cookie, body) /\ PageIdle
    \/ \E cookie \in {jar[App], Undefined}, id \in TaskIds, body \in PatchBodies :
          PatchTask(cookie, id, body) /\ PageIdle
    \/ \E p \in Pending : PatchUpdate(p) /\ PageIdle
    \/ \E cookie \in {jar[App], Undefined}, id \in TaskIds :
          DeleteTask(cookie, id) /\ PageIdle
    \/ \E p \in Pending : DeleteRun(p) /\ PageIdle
    \/ \E op \in {"register", "login"}, body \in FaultBodies :
          StorageRejects(op, [client |-> App, body |-> body]) /\ PageIdle
    \/ \E op \in {"me", "list"} :
          StorageRejects(op, [cookie |-> jar[App]]) /\ PageIdle
    \/ \E body \in PostBodies :
          StorageRejects("create", [cookie |-> jar[App], body |-> body]) /\ PageIdle
    \/ \E id \in TaskIds, body \in PatchBodies :
          StorageRejects("update", [cookie |-> jar[App], id |-> id, body |-> body])
             /\ PageIdle
    \/ \E id \in TaskIds :
          StorageRejects("delete", [cookie |-> jar[App], id |-> id]) /\ PageIdle
    \/ \E p \in Pending : AwaitRejects(p) /\ PageIdle

SpecFault == InitAuth /\ [][NextFault]_vars

\* ---------------------------------------------------------------------
\* Properties
\* ---------------------------------------------------------------------
\* A step that ends a request: every step but the passage of time and the
\* suspension of a handler at its await writes a response.
Responded ==
    /\ clock' = clock
    /\ BagCardinality(pending') <= BagCardinality(pending)
\* the response comes from the handler's first part (or the handler is atomic)
Direct == Responded /\ pending' = pending
\* the response comes from a handler resumed after its await
Resumed == BagCardinality(pending') < BagCardinality(pending)

Authenticated(cookie) == authenticateToken(cookie, clock).next
Caller(cookie) == authenticateToken(cookie, clock).userId
OnlyMessage(body) == DOMAIN body = {"message"}
TaskOps == {"list", "create", "update", "delete"}
Rows(array) == {array[i] : i \in DOMAIN array}

\* ---------------------------------------------------------------- C1
\* What a request of user A may do to the rows of others, and how a PATCH
\* or DELETE that finds no row, or another user's row, is answered.
\* `anyBody`: the answer is claimed for every PATCH body, valid or not.
C1_Isolation(anyBody) ==
    (Responded /\ resp'.op \in {"list", "update", "delete"}
               /\ Authenticated(resp'.req.cookie)) =>
       LET A == Caller(resp'.req.cookie)
           r == resp'
       IN
       /\ \A t \in tasks : t.userId # A => t \in tasks'
       /\ r.op = "list" => \A t \in Rows(r.body.array) : t.userId = A
       /\ r.op = "update" /\ r.status = 200 =>
             r.body = Undefined \/ r.body.userId = A
       /\ r.status # 200 => OnlyMessage(r.body)
       /\ (/\ Direct
           /\ r.op \in {"update", "delete"}
           /\ r.op = "update" =>
                 (anyBody \/ insertTaskSchemaPartial(r.req.body).success)) =>
             LET task == getTask(r.req.id) IN
             /\ task = Undefined => r.status = 404
             /\ task # Undefined /\ task.userId # A => r.status = 403

\* C1 (as stated): no GET, PATCH or DELETE with A's session returns,
\* modifies or removes a task of B; a PATCH or DELETE by A answers 403 on
\* B's existing task and 404 on an absent id.
C1_AsStated == [][C1_Isolation(TRUE)]_vars

\* C1 (amended): the same, the 403 and 404 of PATCH being claimed for the
\* requests whose body passes the schema; the presence of the task is
\* judged at the handler's lookup.
C1_NoAccessToOthersTasks == [][C1_Isolation(FALSE)]_vars

C1_Witness ==
    /\ resp.op = "delete"
    /\ resp.status = 403
    /\ Authenticated(resp.req.cookie)
    /\ \E t \in tasks : t.id = resp.req.id /\ t.userId # Caller(resp.req.cookie)

\* ---------------------------------------------------------------- C2
\* C2: a task operation or GET /api/auth/me that comes without a cookie,
\* with a token of another signature or with an expired token is answered
\* 401 with the middleware's message alone, and writes nothing: the
\* tables, the task counter and the suspended handlers are as before.
C2_UnauthenticatedIs401 ==
    [][(Responded /\ resp'.op \in TaskOps \cup {"me"}
                  /\ (\/ resp'.req.cookie = Undefined
                      \/ resp'.req.cookie.key # JWT_SECRET
                      \/ resp'.req.cookie.exp <= clock)) =>
          /\ resp'.status = 401
          /\ resp'.body \in {Message("Authentication required"),
                             Message("Invalid or expired token")}
          /\ ~resp'.cookie.set
          /\ UNCHANGED <<users, tasks, taskSeq, pending, jar>>]_vars

C2_Witness ==
    /\ resp.op = "delete"
    /\ resp.status = 401
    /\ resp.req.cookie # Undefined
    /\ resp.req.cookie.key = JWT_SECRET
    /\ resp.req.cookie.exp <= clock
    /\ \E t \in tasks : t.id = resp.req.id /\ t.userId = resp.req.cookie.userId

\* ---------------------------------------------------------------- C3
\* C3: register and login issue, on day t, a token for the user they
\* answer with; the middleware accepts it as that user on every day
\* before t + 7 and answers 401 from day t + 7 on.
C3_TokenLifetime ==
    [][/\ (Responded /\ resp'.op \in {"register", "login"} /\ resp'.status = 200) =>
             /\ resp'.cookie.set
             /\ resp'.cookie.value.userId = resp'.body.id
             /\ resp'.cookie.value.iat = clock
             /\ resp'.cookie.value.key = JWT_SECRET
             /\ \E u \in users' :
                   u.id = resp'.body.id /\ u.username = resp'.req.body.username
       /\ (Responded /\ resp'.op \in {"me", "list"}
                     /\ resp'.req.cookie # Undefined
                     /\ resp'.req.cookie.key = JWT_SECRET) =>
             LET token == resp'.req.cookie IN
             /\ clock < token.iat + TokenTTL =>
                   /\ resp'.status = 200
                   /\ resp'.op = "me" => resp'.body.id = token.userId
                   /\ resp'.op = "list" =>
                         resp'.body.array = getTasksByUserId(token.userId)
             /\ clock >= token.iat + TokenTTL => resp'.status = 401]_vars

C3_Witness ==
    /\ resp.op = "me"
    /\ resp.status = 401
    /\ resp.req.cookie # Undefined
    /\ resp.req.cookie.key = JWT_SECRET
    /\ resp.req.cookie.userId = 2
    /\ clock = resp.req.cookie.iat + TokenTTL

\* the handlers suspended by this step
Suspended == {p \in BagToSet(pending') : CopiesIn(p, pending') > CopiesIn(p, pending)}
Stored(username) == {u \in users : u.username = username}
\* the hash is the one of this password, under whichever salt
HashOf(password, hash) == \E salt \in Salts : hash = bcryptHash(password, salt)
WellFormed(body) == {"username", "password"} \subseteq DOMAIN body

\* ---------------------------------------------------------------- C4
\* C4: a register whose username the lookup finds stored answers 400,
\* sets no cookie, adds no user and does not go on to the insert; no stored
\* row ever changes, a successful register stores the hash of the password
\* it was given, and a login answers 200 exactly when its password is the
\* one hashed in the row of its username.
C4_DuplicateRegisterIsConflict ==
    [][/\ \A u \in users : u \in users'
       /\ (Direct /\ resp'.op = "register" /\ insertUserSchema(resp'.req.body)
                  /\ Stored(resp'.req.body.username) # {}) =>
             /\ resp'.status = 400
             /\ ~resp'.cookie.set
             /\ UNCHANGED <<users, jar>>
       /\ \A p \in Suspended : p.op = "register" => Stored(p.req.body.username) = {}
       /\ (Responded /\ resp'.op = "register" /\ resp'.status = 200) =>
             \E u \in users' \ users :
                /\ users' = users \cup {u}
                /\ u.username = resp'.req.body.username
                /\ HashOf(resp'.req.body.password, u.password)
       /\ (Responded /\ resp'.op = "login" /\ WellFormed(resp'.req.body)) =>
             (resp'.status = 200 <=>
                \E u \in Stored(resp'.req.body.username) :
                   HashOf(resp'.req.body.password, u.password))]_vars

C4_Witness ==
    /\ resp.op = "register"
    /\ resp.status = 400
    /\ \E u \in Stored(resp.req.body.username) :
          ~HashOf(resp.req.body.password, u.password)

\* ---------------------------------------------------------------- C5
\* C5: no two stored users have the same username, and a register with a
\* valid body answers 200 or Conflict (400), however two registers of one
\* username interleave between the lookup and the insert.
C5_UniqueAnd200OrConflict ==
    /\ \A u, v \in users : u.username = v.username => u = v
    /\ (resp.op = "register" /\ insertUserSchema(resp.req.body)) =>
          resp.status \in {200, 400}

\* ---------------------------------------------------------------- C6
\* C6: a register with a valid body whose username the lookup does not
\* find stored succeeds, and every later login with the username and
\* password of a stored account answers 200 with a cookie for its id.
C6_RegisterThenLogin ==
    [][/\ (Resumed /\ resp'.op = "register") => resp'.status = 200
       /\ (Responded /\ resp'.op = "login" /\ WellFormed(resp'.req.body)) =>
             \A u \in Stored(resp'.req.body.username) :
                HashOf(resp'.req.body.password, u.password) =>
                   /\ resp'.status = 200
                   /\ resp'.cookie.set
                   /\ resp'.cookie.value.userId = u.id
                   /\ resp'.body.id = u.id]_vars

\* ---------------------------------------------------------------- C7
\* C7: a login whose username is not stored letter for letter, or whose
\* password is not the one hashed in the row of the username, answers 401,
\* sets no cookie and changes nothing stored.
C7_BadCredentialsIs401 ==
    [][(Responded /\ resp'.op = "login" /\ WellFormed(resp'.req.body)
                  /\ \A u \in Stored(resp'.req.body.username) :
                        ~HashOf(resp'.req.body.password, u.password)) =>
          /\ resp'.status = 401
          /\ resp'.body = Message("Invalid credentials")
          /\ ~resp'.cookie.set
          /\ UNCHANGED <<users, tasks, taskSeq, jar, pending>>]_vars

C7_Witness ==
    /\ resp.op = "login"
    /\ resp.status = 401
    /\ resp.req.body.username = "Alice"
    /\ Stored("Alice") = {}
    /\ \E u \in Stored("alice") : HashOf(resp.req.body.password, u.password)

\* ---------------------------------------------------------------- C8
\* C8: a PATCH adds and removes no row and leaves, in every row, the id,
\* the owner, the creation timestamp and each field its body does not
\* carry as they were; the task it answers with is the one of its id.
C8_PatchKeepsTheRest ==
    [][(Responded /\ resp'.op = "update") =>
          /\ Cardinality(tasks') = Cardinality(tasks)
          /\ \A t \in tasks : \E n \in tasks' :
                /\ n.id = t.id
                /\ n.userId = t.userId
                /\ n.createdAt = t.createdAt
                /\ DOMAIN n = DOMAIN t
                /\ \A k \in TaskKeys \ DOMAIN resp'.req.body : n[k] = t[k]
          /\ (resp'.status = 200 /\ resp'.body # Undefined) =>
                resp'.body.id = resp'.req.id /\ resp'.body \in tasks']_vars

C8_Witness ==
    /\ resp.op = "update"
    /\ resp.status = 200
    /\ resp.req.body = [completed |-> TRUE]
    /\ resp.body # Undefined
    /\ resp.body.completed
    /\ resp.body.title = "Call mom"
    /\ resp.body.category = "home"
    /\ resp.body.userId = 1

\* ---------------------------------------------------------------- C9
\* C9: the row a POST inserts belongs to the authenticated caller, also
\* when the body names another userId, and no step changes the owner of a
\* row.
C9_OwnerIsCaller ==
    [][/\ (Responded /\ resp'.op = "create" /\ resp'.status = 200) =>
             \E t \in tasks' \ tasks :
                /\ tasks' = tasks \cup {t}
                /\ t.userId = Caller(resp'.req.cookie)
                /\ resp'.body = t
       /\ \A t \in tasks, n \in tasks' : n.id = t.id => n.userId = t.userId]_vars

C9_Witness ==
    /\ resp.op = "create"
    /\ resp.status = 200
    /\ Has(resp.req.body, "userId")
    /\ resp.req.body.userId # resp.body.userId
    /\ resp.body.userId = Caller(resp.req.cookie)

\* --------------------------------------------------------------- C10
\* C10: a DELETE, or a PATCH with a valid body, by an authenticated caller
\* answers 404 when its lookup finds no task and 403 when it finds the
\* task of another user, and writes no row; the handler goes on to the
\* mutation only past both tests, and only such a handler writes.
C10_NotFoundThenForbidden ==
    [][/\ (/\ Direct
           /\ resp'.op \in {"update", "delete"}
           /\ Authenticated(resp'.req.cookie)
           /\ resp'.op = "update" => insertTaskSchemaPartial(resp'.req.body).success) =>
             LET task == getTask(resp'.req.id) IN
             /\ UNCHANGED tasks
             /\ resp'.status = IF task = Undefined THEN 404 ELSE 403
             /\ resp'.status = 403 => task.userId # Caller(resp'.req.cookie)
       /\ \A p \in Suspended : p.op \in {"update", "delete"} =>
             /\ getTask(p.req.id) # Undefined
             /\ getTask(p.req.id).userId = Caller(p.req.cookie)
       /\ (tasks' # tasks /\ resp'.op \in {"update", "delete"}) => Resumed]_vars

C10_Witness ==
    /\ resp.op = "update"
    /\ resp.status = 404
    /\ Authenticated(resp.req.cookie)
    /\ insertTaskSchemaPartial(resp.req.body).success
    /\ resp.req.id <= taskSeq
    /\ tasks # {}
\* --------------------------------------------------------------- C11
\* C11: a DELETE by an authenticated caller on an id no row has, never
\* created or already removed, answers 404 "Task not found", leaves the
\* tasks table as it was and does not go on to the storage delete.
C11_DeleteAbsentIs404 ==
    [][/\ (/\ Direct
           /\ resp'.op = "delete"
           /\ Authenticated(resp'.req.cookie)
           /\ \A t \in tasks : t.id # resp'.req.id) =>
             /\ resp'.status = 404
             /\ resp'.body = Message("Task not found")
             /\ UNCHANGED <<tasks, taskSeq>>
       /\ \A p \in Suspended : p.op = "delete" => \E t \in tasks : t.id = p.req.id]_vars

\* a DELETE on an id whose task an earlier DELETE removed, while another
\* task is still stored
C11_Witness ==
    /\ resp.op = "delete"
    /\ resp.status = 404
    /\ Authenticated(resp.req.cookie)
    /\ resp.req.id <= taskSeq
    /\ \E t \in tasks : t.id # resp.req.id

\* --------------------------------------------------------------- C12
\* C12: a DELETE whose storage delete removes no row answers 404; of two
\* DELETEs of one task that both pass the existence test before either
\* deletes, the one that finds the row gone does not answer 200.
C12_DeleteOfNothingIs404 ==
    [][(Resumed /\ resp'.op = "delete" /\ tasks' = tasks) => resp'.status = 404]_vars

\* --------------------------------------------------------------- C13
\* C13: a PATCH that answers 200 carries the stored task of its id, owned
\* by the caller, in its body; a PATCH whose task was deleted between its
\* tests and its update does not answer 200.
C13_Patch200CarriesTheTask ==
    [][(Responded /\ resp'.op = "update" /\ resp'.status = 200) =>
          /\ resp'.body \in tasks'
          /\ resp'.body.id = resp'.req.id
          /\ resp'.body.userId = Caller(resp'.req.cookie)]_vars
\* --------------------------------------------------------------- C14
\* C14: a GET /api/tasks by an authenticated caller answers 200 with
\* exactly the stored rows the caller owns, each once, a row with a later
\* creation timestamp (and so a later insert) never after an earlier one.
C14_ListIsOwnRowsNewestFirst ==
    [][(Responded /\ resp'.op = "list" /\ Authenticated(resp'.req.cookie)) =>
          /\ resp'.status = 200
          /\ LET rows == resp'.body.array
                 own == {t \in tasks : t.userId = Caller(resp'.req.cookie)}
             IN
             /\ Rows(rows) = own
             /\ Len(rows) = Cardinality(own)
             /\ \A i, j \in DOMAIN rows : i < j =>
                   /\ rows[i].createdAt.day >= rows[j].createdAt.day
                   /\ rows[i].createdAt.day = rows[j].createdAt.day =>
                         rows[i].createdAt.seq > rows[j].createdAt.seq
                   /\ rows[i].id > rows[j].id]_vars

C14_Witness ==
    /\ resp.op = "list"
    /\ resp.status = 200
    /\ Len(resp.body.array) = 2
    /\ resp.body.array[1].id = 2
    /\ resp.body.array[2].title = "Call mom"

BodyFails(op, body) ==
    CASE op = "register" -> ~(WellFormed(body) /\ body.username # "")
      [] op = "login"    -> ~WellFormed(body)
      [] op = "create"   -> ~(Has(body, "title") /\ TaskFieldsOk(body))
      [] op = "update"   -> ~TaskFieldsOk(body)
      [] OTHER           -> FALSE
C17_InvalidBodyIs422 ==
    [][/\ (/\ Responded
           /\ BodyFails(resp'.op, resp'.req.body)
           /\ resp'.op \in {"create", "update"} => Authenticated(resp'.req.cookie)) =>
             /\ resp' = Json(resp'.op, resp'.req, 422, Message("Validation failed"), NoCookie)
             /\ UNCHANGED <<users, tasks, taskSeq, jar, pending>>
       /\ \A p \in Suspended : ~BodyFails(p.op, p.req.body)]_vars

\* a PATCH with an invalid body on a task of another user
C17_Witness ==
    /\ resp.op = "update"
    /\ resp.status = 422
    /\ Authenticated(resp.req.cookie)
    /\ \E t \in tasks : t.id = resp.req.id /\ t.userId # Caller(resp.req.cookie)
\* --------------------------------------------------------------- C18
\* C18: a logout answers 200 and clears the cookie of its client, with or
\* without a cookie presented, and changes nothing on the server; a token
\* the server signed is accepted by /api/auth/me, GET and POST /api/tasks
\* for its user until its expiry, whether or not the client it was issued
\* to has logged out since.
Unexpired(cookie) ==
    /\ cookie # Undefined
    /\ cookie.key = JWT_SECRET
    /\ clock < cookie.iat + TokenTTL
C18_LogoutRevokesNothing ==
    [][/\ (Responded /\ resp'.op = "logout") =>
             /\ resp'.status = 200
             /\ resp'.cookie = ClearCookie
             /\ jar' = [jar EXCEPT ![resp'.req.client] = Undefined]
             /\ UNCHANGED <<users, tasks, taskSeq, pending, clock>>
       /\ (/\ Responded
           /\ resp'.op \in {"me", "list", "create"}
           /\ Unexpired(resp'.req.cookie)) =>
             /\ resp'.status = 200
             /\ resp'.op = "me" => resp'.body.id = resp'.req.cookie.userId
             /\ resp'.op = "create" => resp'.body.userId = resp'.req.cookie.userId
             /\ resp'.op = "list" =>
                   Rows(resp'.body.array) =
                      {t \in tasks : t.userId = resp'.req.cookie.userId}]_vars

\* c1 has logged out; the copy of its token, issued before, still lists
\* the user's tasks
C18_Witness ==
    /\ jar["c1"] = Undefined
    /\ resp.op = "list"
    /\ resp.status = 200
    /\ resp.req.cookie = jar["c2"]
    /\ Len(resp.body.array) > 0
C20_OneQuotePerDay ==
    [][/\ (Responded /\ resp'.op = "quote") =>
             /\ resp'.status = 200
             /\ resp'.body = [text |-> cachedQuote'.text, author |-> cachedQuote'.author]
             /\ cachedQuote'.date = clock
             /\ (resp.op = "quote" /\ resp.req.today = resp'.req.today) =>
                   resp'.body = resp.body
       /\ cachedQuote' # cachedQuote =>
             /\ resp'.op = "quote"
             /\ Responded
             /\ cachedQuote = NoQuote \/ cachedQuote.date # clock]_vars

\* two calls on one day, the second with the refresh segment, then a call
\* on a later day that got another pair
C20_Witness ==
    /\ resp.op = "quote"
    /\ resp.req.refresh = "2"
    /\ resp.req.today = 2
    /\ cachedQuote.date = 2
    /\ resp.body.author = "Nelson Mandela"
\* ------------------------------------------------------------ filters
\* the lower-case form of each text, as a dictionary gives it
Folded(str) ==
    CASE str = "" -> <<>>
      [] str = "Tea" -> <<"t", "e", "a">>
      [] str = "tax" -> <<"t", "a", "x">>
      [] str = "Eat" -> <<"e", "a", "t">>
      [] str = "TE" -> <<"t", "e">>
      [] str = "at" -> <<"a", "t">>
\* part occurs in text, letter for letter
Occurs(part, text) ==
    \E at \in 0 .. Len(text) :
        /\ at + Len(part) <= Len(text)
        /\ \A k \in 1 .. Len(part) : text[at + k] = part[k]
Cached == client.tasks.data
Matches(t) ==
    /\ \/ filters.search = ""
       \/ Occurs(Folded(filters.search), Folded(t.title))
       \/ t.description # Null /\ Occurs(Folded(filters.search), Folded(t.description))
    /\ filters.priority = {} \/ t.priority \in filters.priority
    /\ filters.category = {} \/ t.category \in filters.category
    /\ \/ filters.completed = "all"
       \/ filters.completed = "active" /\ ~t.completed
       \/ filters.completed = "completed" /\ t.completed

\* C21: applyFilters returns exactly the tasks of its input, in the input's
\* order, that meet all four criteria: the search text is empty or occurs,
\* letter case aside, in the title or in a non-null description; the
\* priority set is empty or holds the task's priority; the category set is
\* empty or holds the task's category; the completion mode is "all", or
\* "active" and the task is open, or "completed" and the task is done.
C21_FilterIsTheConjunction ==
    applyFilters(Cached, filters) = SelectSeq(Cached, Matches)
C21_Witness ==
    /\ filters = [search |-> "TE", priority |-> {"high"}, category |-> {"home"},
                  completed |-> "active"]
    /\ Len(Cached) = 2
    /\ applyFilters(Cached, filters) = <<Cached[2]>>
\* C22: filtering twice with one filter gives what filtering once gives, and
\* the empty filter (no search, no priority, no category, mode "all") gives
\* back every task, those with a null priority, category or description too.
C22_IdempotentAndEmptyKeepsAll ==
    /\ applyFilters(applyFilters(Cached, filters), filters) = applyFilters(Cached, filters)
    /\ applyFilters(Cached, NoFilters) = Cached
    /\ filters = NoFilters => filteredTasks = Cached
C22_Witness ==
    /\ filters = [NoFilters EXCEPT !.search = "at"]
    /\ Len(Cached) = 2
    /\ Cached[1].description = Null
    /\ filteredTasks = <<Cached[2]>>
    /\ Cached[2].priority = Null /\ Cached[2].category = Null
    /\ applyFilters(filteredTasks, filters) = filteredTasks
    /\ applyFilters(Cached, NoFilters) = Cached
\* the share of done tasks among all cached tasks, in percent, rounded to the
\* nearest integer (halves up)
Done == {i \in 1 .. Len(Cached) : Cached[i].completed}
Share ==
    IF Len(Cached) = 0 THEN 0
    ELSE CHOOSE p \in 0 .. 100 :
            /\ 2 * Len(Cached) * p <= 200 * Cardinality(Done) + Len(Cached)
            /\ 200 * Cardinality(Done) + Len(Cached) < 2 * Len(Cached) * (p + 1)

\* C28: the completion percentage shown is an integer from 0 to 100 equal to
\* the rounded share of completed tasks among all of the user's tasks,
\* whatever filter is applied, and 0 when the user has no task.
C28_PercentageOfAllTasks ==
    /\ completionPercentage \in 0 .. 100
    /\ completionPercentage = Share

\* ----------------------------------------------------- page and cache
\* nothing is under way and no query is due for a fetch
Quiescent ==
    /\ client.flight = {}
    /\ pending = EmptyBag
    /\ ~Due(client.me)
    /\ Mounted => ~Due(client.tasks)
\* the session the server sees in the browser's cookie
Session == authenticateToken(jar[App], clock)

\* C23: every successful mutation of the page (create, edit, toggle,
\* delete, login, register, logout) invalidates or clears the cache entries
\* of what it changed: once the refetches are over and nothing else is
\* under way, the cached current user is the user of the session and the
\* cached task list is that user's stored list, newest first; without a
\* session the cache holds neither.
C23_CacheFollowsTheServer ==
    Quiescent =>
       IF Session.next
       THEN /\ client.me = Fetched(Without(getUser(Session.userId), "password"))
            /\ Mounted => client.tasks = Fetched(getTasksByUserId(Session.userId))
       ELSE /\ client.me.data = NoUser
            /\ client.tasks.data = <<>>
\* the task list is on screen
ListShown == Mounted /\ HasData(client.tasks)
\* the step delivers the 200 of a GET /api/tasks into the cache
ListDelivered ==
    \E r \in client.flight :
       /\ r.op = "list" /\ r.status = 200
       /\ r \notin client'.flight
       /\ client'.tasks = Fetched(r.body.array)

\* C24: there is no optimistic update: the list on screen appears or
\* changes only in the step that delivers a completed GET /api/tasks, never
\* when a create, edit, toggle or delete is issued, is under way at the
\* server, or comes back failed.
C24_ListChangesOnlyOnGet ==
    [][(ListShown' /\ (~ListShown \/ client'.tasks.data # client.tasks.data))
          => ListDelivered]_vars
\* a toggle came back 404 (the task was deleted meanwhile) and the list
\* still shows the task
C24_Witness ==
    /\ resp.op = "update"
    /\ resp.status = 404
    /\ resp \notin client.flight
    /\ ListShown
    /\ \E i \in 1 .. Len(client.tasks.data) : client.tasks.data[i].id = resp.req.id
\* the responses the step delivers to the page
Delivered == client.flight \ client'.flight

\* C27: when a logout completes the user state is null and the query cache
\* is empty, and no response to a GET /api/auth/me or GET /api/tasks sent
\* before it is left to arrive; the user state goes from null to a user only
\* when a login or register has succeeded, in the step that delivers its
\* 200 or the 200 of a GET /api/auth/me sent with its session; when the
\* logout request fails, the user state and the cache stay as they were.
C27_LogoutClearsAndStaysOut ==
    [][/\ (\E r \in Delivered : r.op = "logout" /\ r.status = 200) =>
             /\ client'.user = NoUser
             /\ client'.me = NoPage.me
             /\ client'.tasks = NoPage.tasks
             /\ \A r \in client'.flight : r.op \notin {"me", "list"}
       /\ (client.user = NoUser /\ client'.user # NoUser) =>
             \E r \in client.flight :
                /\ r.op \in {"login", "register"} /\ r.status = 200
                /\ client'.user = r.body
                /\ \/ r \notin client'.flight
                   \/ \E m \in Delivered : /\ m.op = "me" /\ m.status = 200
                                           /\ m.req.cookie = r.cookie.value
       /\ (\E r \in Delivered : r.op = "logout" /\ r.status # 200) =>
             /\ client'.user = client.user
             /\ client'.me = client.me
             /\ client'.tasks = client.tasks]_vars
\* alice has logged out: her task is still stored, the page holds no user
\* and no list, and its new GET /api/auth/me was answered 401
C27_Witness ==
    /\ client.user = NoUser
    /\ client.me = Failed(NoPage.me)
    /\ client.tasks = NoPage.tasks
    /\ client.flight = {}
    /\ jar[App] = Undefined
    /\ \E t \in tasks : t.userId = 1
\* C29: every category in the filter's category set is one of the
\* available categories of the current task list, so that each selected
\* category has its checkbox and none filters the list on behalf of a
\* category no task has.
C29_SelectedCategoriesAreAvailable ==
    filters.category \subseteq availableCategories
\* C25: two PATCHes of the owner on the same task, interleaved in any
\* way, leave the row that the two partial merges make when applied one
\* after the other in some order: a field holds the value of the merge
\* applied last among those supplying it, or the prior value when
\* neither supplies it. At every moment of the race each field of the
\* row holds the prior value or a value one of the requests supplied,
\* and the other rows are untouched.
Supplied(body) == [k \in (DOMAIN body) \cap TaskKeys |-> body[k]]
Merged(row, body) ==
    [k \in DOMAIN row |-> IF Has(Supplied(body), k) THEN body[k] ELSE row[k]]
Raced == {t \in tasks : t.id = Prior.id}
Issued == {p.req.body : p \in Pending} \cup {r.req.body : r \in client.flight}
C25_LastWriteWins ==
    /\ Cardinality(Raced) = 1 /\ tasks \ Raced = {Bystander}
    /\ \A t \in Raced :
          /\ DOMAIN t = DOMAIN Prior
          /\ \A k \in DOMAIN t :
                \/ t[k] = Prior[k]
                \/ \E body \in Issued : Has(Supplied(body), k) /\ t[k] = body[k]
    /\ (pending = EmptyBag /\ Cardinality(client.flight) = 2) =>
          \E first, last \in client.flight :
             /\ first # last
             /\ first.status = 200 /\ last.status = 200
             /\ first.body = Merged(Prior, first.req.body)
             /\ last.body = Merged(first.body, last.req.body)
             /\ Raced = {last.body}
             /\ \A k \in TaskKeys :
                   last.body[k] =
                      IF Has(Supplied(last.req.body), k) THEN last.req.body[k]
                      ELSE IF Has(Supplied(first.req.body), k) THEN first.req.body[k]
                      ELSE Prior[k]
\* both requests were answered, they supply different titles, and the
\* row holds the title of one of them and a value only the other supplied
C25_Witness ==
    /\ pending = EmptyBag
    /\ \E first, last \in client.flight :
          /\ first.status = 200 /\ last.status = 200
          /\ Has(first.req.body, "title") /\ Has(last.req.body, "title")
          /\ first.req.body.title # last.req.body.title
          /\ Raced = {last.body}
          /\ last.body.title = last.req.body.title
          /\ \E k \in TaskKeys :
                /\ Has(first.req.body, k) /\ ~Has(last.req.body, k)
                /\ last.body[k] = first.req.body[k]
                /\ last.body[k] # Prior[k]
\* C26: the quote cache is empty, and then no call was made, or it
\* holds a pair of the quote list together with the day of the most
\* recent call. A call on another day than the cached one puts a pair of
\* the list dated that day into the cache and answers with that pair; a
\* call on the cached day leaves the cache as it was; nothing but a call
\* changes the cache.
QuotePairs == {quotes[i] : i \in DOMAIN quotes}
PairOf(cache) == [text |-> cache.text, author |-> cache.author]
QuoteCall == Responded /\ resp'.op = "quote"
C26_CacheHoldsTodaysPick ==
    /\ [](IF cachedQuote = NoQuote THEN resp.op # "quote"
          ELSE /\ DOMAIN cachedQuote = {"text", "author", "date"}
               /\ PairOf(cachedQuote) \in QuotePairs
               /\ resp.op = "quote"
               /\ cachedQuote.date = resp.req.today)
    /\ [][/\ (QuoteCall /\ (cachedQuote = NoQuote \/ cachedQuote.date # clock)) =>
                /\ cachedQuote'.date = clock
                /\ PairOf(cachedQuote') \in QuotePairs
                /\ resp'.body = PairOf(cachedQuote')
          /\ (QuoteCall /\ cachedQuote # NoQuote /\ cachedQuote.date = clock) =>
                cachedQuote' = cachedQuote
          /\ ~QuoteCall => cachedQuote' = cachedQuote]_vars
\* a call on the fourth day found the pair of an earlier day and left the
\* third pair of the list, dated that day
C26_Witness ==
    /\ cachedQuote # NoQuote
    /\ cachedQuote.date = 3
    /\ resp.op = "quote"
    /\ resp.req.today = 3
    /\ resp.body = quotes[3]
\* C30: every request to an auth or task route is answered exactly once,
\* with one of the statuses 200, 400, 401, 403, 404, 422, 500. A handler
\* that stops at an await has not answered, and the step that takes it
\* up again answers that very request. Behind authenticateToken a request
\* is answered 401 with the middleware's message alone exactly when the
\* middleware does not pass it on, and a request passed on reaches the
\* handler once. A rejected storage call is answered 500 with the route's
\* fixed message, no cookie, and nothing of the error.
Statuses == {200, 400, 401, 403, 404, 422, 500}
Guarded == {"me", "list", "create", "update", "delete"}
GenericMessages ==
    {"Registration failed", "Login failed", "Failed to get user", "Failed to get tasks",
     "Failed to create task", "Failed to update task", "Failed to delete task"}
Taken == {p \in BagToSet(pending) : CopiesIn(p, pending') < CopiesIn(p, pending)}
C30_OneResponsePerRequest ==
    [][/\ BagCardinality(pending') \in
             {BagCardinality(pending) - 1, BagCardinality(pending),
              BagCardinality(pending) + 1}
       /\ BagCardinality(pending') > BagCardinality(pending) =>
             /\ resp' = resp
             /\ Taken = {}
             /\ \A p \in Suspended :
                   /\ CopiesIn(p, pending') = CopiesIn(p, pending) + 1
                   /\ p.op \in Guarded => Authenticated(p.req.cookie)
       /\ BagCardinality(pending') <= BagCardinality(pending) =>
             /\ resp'.op \in Guarded \cup {"register", "login", "logout"}
             /\ resp'.status \in Statuses
             /\ Suspended = {}
             /\ resp'.status = 500 =>
                   /\ OnlyMessage(resp'.body)
                   /\ resp'.body.message \in GenericMessages
                   /\ resp'.cookie = NoCookie
       /\ BagCardinality(pending') < BagCardinality(pending) =>
             \E p \in Taken :
                /\ Taken = {p}
                /\ CopiesIn(p, pending') = CopiesIn(p, pending) - 1
                /\ resp'.op = p.op
                /\ resp'.req = p.req
       /\ (pending' = pending /\ resp'.op \in Guarded) =>
             /\ resp'.status = 401 <=> ~Authenticated(resp'.req.cookie)
             /\ resp'.status = 401 =>
                   /\ resp'.body \in {Message("Authentication required"),
                                      Message("Invalid or expired token")}
                   /\ UNCHANGED <<users, tasks, taskSeq, jar>>]_vars
\* the deleteTask of a DELETE rejected: the route answered 500 and the
\* task is still stored
C30_Witness ==
    /\ resp.op = "delete"
    /\ resp.status = 500
    /\ resp.body = Message("Failed to delete task")
    /\ pending = EmptyBag
    /\ \E t \in tasks : t.id = resp.req.id
====
